---- MODULE Spec2Model ----
(***************************************************************************)
(* wix-cms-sdk: the request-execution pipeline of the client.              *)
(*                                                                         *)
(*   withRetry / fetchWithTimeout / sleep     utils/requestHelpers.js      *)
(*   handleResponse / formatErrorMessage /                                 *)
(*   isRetryableError / createDetailedError   utils/errorHandler.js        *)
(*   WixRequest.#executeQuery / #makeRequest  classes/wixRequest.js        *)
(*                                                                         *)
(* One withRetry run is modelled at the granularity of its asynchronous    *)
(* continuations: every action is the code that runs between two awaits.   *)
(* A message is a sequence of words; the five keywords isRetryableError    *)
(* looks for occur in the modelled messages as whole words only, so        *)
(* String.includes is membership of the keyword in the sequence.           *)
(***************************************************************************)
EXTENDS Integers, Sequences, FiniteSets, TLC

VARIABLES
    pc,        \* position of the withRetry run
    caller,    \* "none" | "generic" (any fn, any config) | "transport" (#executeQuery)
    policy,    \* the destructured config of withRetry
    attempt,   \* loop variable `attempt`
    lastError, \* local `lastError`
    outcome,   \* settled value or error of the promise withRetry returned
    events,    \* observable calls, in order: fn, fetch, onRetry, sleep, throws, returns
    timer,     \* fetchWithTimeout's setTimeout: "none" | "armed" | "cleared" | "fired"
    net,       \* what the backend does with the request in flight
    resp,      \* the Response fetch resolved with, body not read yet
    clsErr,    \* input of the classification check
    clsOut,    \* its result
    client,    \* the WixCMS instance: #username, #site, #token
    facades,   \* the QueryBuilder instances: #conditions and the fields of #wixRequest
    fluentLog, \* per facade, the fluent calls that returned, in order
    last,      \* the latest synchronous call on the client or a facade, and how it ended
    call,      \* the latest terminal call: route and body handed to #executeQuery
    calls,     \* number of terminal calls started
    sent,      \* the HTTP requests of the latest terminal call, in order
    server     \* the backend: its secret token and the requests of that call it handled

vars == <<pc, caller, policy, attempt, lastError, outcome, events, timer, net, resp,
          clsErr, clsOut, client, facades, fluentLog, last, call, calls, sent, server>>

facadeVars == <<client, facades, fluentLog, last, call, calls, server>>

retryVars == <<pc, caller, policy, attempt, lastError, outcome, events, timer, net, resp>>

----------------------------------------------------------------------------
(* Bounds of the model *)

MaxAttemptsBound == 4

BaseDelays == {-1, 0, 1, 3}
MaxDelays  == {-3, 0, 2, 5}

(* config/constants.js *)
RETRY_CONFIG == [maxAttempts |-> 3, baseDelay |-> 1000, maxDelay |-> 10000]

----------------------------------------------------------------------------
(* Values *)

RECURSIVE Pow2(_)
Pow2(n) == IF n <= 0 THEN 1 ELSE 2 * Pow2(n - 1)

Min(a, b) == IF a <= b THEN a ELSE b

Includes(message, word) == \E i \in 1..Len(message) : message[i] = word

(* An Error object: status 0 stands for "no status property" (both are falsy). *)
MkError(name, status, message) == [name |-> name, status |-> status, message |-> message]

Undefined == MkError("undefined", 0, <<>>)

NoMsg == [type |-> "absent", text |-> <<>>, description |-> <<>>, appCode |-> "",
          name |-> "", code |-> ""]
StrMsg(words) == [NoMsg EXCEPT !.type = "string", !.text = words]
ObjMsg(description, appCode, name, code) ==
    [NoMsg EXCEPT !.type = "object", !.description = description, !.appCode = appCode,
                  !.name = name, !.code = code]

(* JavaScript truthiness of errorMessage / error *)
Truthy(msg) == msg.type = "object" \/ (msg.type = "string" /\ msg.text # <<>>)

(* A parsed JSON body. statusType is the typeof of its status field. *)
MkData(isNull, statusType, status, error, errorMessage) ==
    [isNull |-> isNull, statusType |-> statusType, status |-> status,
     error |-> error, errorMessage |-> errorMessage, result |-> "none"]

NoData == MkData(TRUE, "missing", "", NoMsg, NoMsg)

----------------------------------------------------------------------------
(* utils/errorHandler.js *)

friendlyMessages(errorCode) ==
    CASE errorCode = "WD_SCHEMA_DOES_NOT_EXIST" ->
            <<"Collection", "does", "not", "exist.", "Check", "the", "collection",
              "name", "in", "your", "Wix", "Data", "panel.">>
      [] errorCode = "WD_PERMISSION_DENIED" ->
            <<"Permission", "denied.", "Check", "your", "API", "token", "and",
              "collection", "permissions.">>
      [] errorCode = "WD_INVALID_QUERY" -> <<"Invalid", "query", "syntax.">>
      [] OTHER -> <<>>

(* JSON.stringify of a detail object that carries none of the fields
   formatErrorMessage knows: its remaining text *)
Stringify(msg) ==
    IF msg.type = "object"
    THEN <<"{">> \o (IF msg.name # "" THEN <<"name", msg.name>> ELSE <<>>) \o <<"}">>
    ELSE <<>>

formatErrorMessage(msg) ==
    IF msg.type = "object"
    THEN IF msg.description # <<>> THEN msg.description
         ELSE IF msg.appCode # ""
              THEN <<msg.appCode, IF msg.name # "" THEN msg.name ELSE "Error">>
         ELSE IF msg.code # ""
              THEN IF friendlyMessages(msg.code) # <<>>
                   THEN friendlyMessages(msg.code)
                   ELSE <<"Error", "code:", msg.code>>
         ELSE Stringify(msg)
    ELSE IF msg.type = "string" THEN msg.text ELSE Stringify(msg)

(* Mutants of the classification: the message is looked at before the
   status; every error without a client status is retried *)
isRetryableError_MessageFirst(error) ==
    IF \E w \in {"timeout", "network", "fetch", "ECONNREFUSED", "ETIMEDOUT"} :
          Includes(error.message, w)
    THEN TRUE
    ELSE error.status \in {429, 408} \/ (error.status >= 500 /\ error.status < 600)

isRetryableError_AllButClientErrors(error) ==
    ~(error.status >= 400 /\ error.status < 500 /\ error.status \notin {429, 408})

isRetryableError(error) ==
    IF /\ error.status # 0
       /\ error.status >= 400 /\ error.status < 500
       /\ error.status # 429 /\ error.status # 408
    THEN FALSE
    ELSE IF Includes(error.message, "timeout") THEN TRUE
    ELSE IF Includes(error.message, "network") THEN TRUE
    ELSE IF Includes(error.message, "fetch") THEN TRUE
    ELSE IF Includes(error.message, "ECONNREFUSED") THEN TRUE
    ELSE IF Includes(error.message, "ETIMEDOUT") THEN TRUE
    ELSE IF error.status # 0
         THEN IF error.status = 429 THEN TRUE
              ELSE IF error.status = 408 THEN TRUE
              ELSE error.status >= 500 /\ error.status < 600
         ELSE FALSE

(* Mutant of handleResponse: a body with status "failed" is returned *)
handleResponse_ReturnsFailed(data) ==
    IF data.isNull \/ data.statusType # "string"
    THEN [threw |-> TRUE,
          error |-> MkError("Error", 0,
                            <<"Invalid", "response", "format", "from", "Wix", "API">>),
          value |-> NoData]
    ELSE [threw |-> FALSE, error |-> Undefined, value |-> data]

(* handleResponse once response.json() has resolved with `data`:
   what it throws, or that it returns data *)
handleResponse(data) ==
    IF data.isNull \/ data.statusType # "string"
    THEN [threw |-> TRUE,
          error |-> MkError("Error", 0,
                            <<"Invalid", "response", "format", "from", "Wix", "API">>),
          value |-> NoData]
    ELSE IF data.status = "failed"
    THEN LET msg == IF Truthy(data.errorMessage) THEN data.errorMessage
                    ELSE IF Truthy(data.error) THEN data.error
                    ELSE StrMsg(<<"Unknown", "error">>)
         IN [threw |-> TRUE,
             error |-> MkError("Error", 0,
                               <<"Wix", "API", "Error:">> \o formatErrorMessage(msg)),
             value |-> NoData]
    ELSE [threw |-> FALSE, error |-> Undefined, value |-> data]

(* createDetailedError once the body has been read: `parsed` is whether
   response.json() succeeded; otherwise body is text or null. The default
   message is "HTTP <status>: <statusText>"; the number is left out of the
   words, it holds no keyword. *)
createDetailedError(status, statusText, parsed, data) ==
    LET errorMessage ==
          IF parsed /\ ~data.isNull /\ Truthy(data.errorMessage)
          THEN formatErrorMessage(data.errorMessage)
          ELSE IF parsed /\ ~data.isNull /\ Truthy(data.error)
          THEN formatErrorMessage(data.error)
          ELSE <<"HTTP">> \o statusText
    IN MkError("Error", status, errorMessage)

----------------------------------------------------------------------------
(* The inputs: what fn does, what the backend answers *)

GenValue(v) == [MkData(FALSE, "string", "success", NoMsg, NoMsg) EXCEPT !.result = v]
GenValues == {GenValue("va"), GenValue("vb")}
GenErrors == {MkError("Error", 0, <<"ea">>), MkError("Error", 0, <<"eb">>)}

(* isRetryable of a config: the default () => true, a caller's predicate given
   by the set of errors it accepts, or errorHandler's isRetryableError *)
Predicates ==
    {[kind |-> "default", accept |-> {}], [kind |-> "isRetryableError", accept |-> {}]}
    \cup {[kind |-> "set", accept |-> S] : S \in SUBSET GenErrors}

GenericPolicies ==
    {[maxAttempts |-> k, baseDelay |-> b, maxDelay |-> m, isRetryable |-> p] :
        k \in -1..MaxAttemptsBound, b \in BaseDelays, m \in MaxDelays,
        p \in {q \in Predicates : q.kind # "isRetryableError"}}

MkResponse(ok, status, statusText, json, data, bodyEnd) ==
    [ok |-> ok, status |-> status, statusText |-> statusText, json |-> json,
     data |-> data, bodyEnd |-> bodyEnd]

NoResp == MkResponse(FALSE, 0, <<>>, FALSE, NoData, "none")

SuccessData == [MkData(FALSE, "string", "success", NoMsg, NoMsg) EXCEPT !.result = "items"]
FailedData(code, errorMessage) ==
    MkData(FALSE, "string", "failed", StrMsg(<<code>>), errorMessage)

OkBodies ==
    { SuccessData,
      FailedData("operation_failed", NoMsg),
      FailedData("operation_failed", StrMsg(<<"database", "timeout">>)),
      FailedData("query_failed", ObjMsg(<<>>, "", "", "WD_INVALID_QUERY")),
      MkData(FALSE, "string", "pending", NoMsg, NoMsg),
      MkData(FALSE, "missing", "", NoMsg, NoMsg),
      MkData(FALSE, "number", "", NoMsg, NoMsg),
      NoData }

OkResponses ==
    {MkResponse(TRUE, 200, <<"OK">>, TRUE, d, "complete") : d \in OkBodies}
    \cup { MkResponse(TRUE, 200, <<"OK">>, FALSE, NoData, "complete"),
           MkResponse(TRUE, 200, <<"OK">>, TRUE, SuccessData, "never"),
           MkResponse(TRUE, 200, <<"OK">>, TRUE, SuccessData, "broken") }

StatusText(status) ==
    CASE status = 400 -> <<"Bad", "Request">>
      [] status = 404 -> <<"Not", "Found">>
      [] status = 408 -> <<"Request", "Timeout">>
      [] status = 429 -> <<"Too", "Many", "Requests">>
      [] status = 500 -> <<"Internal", "Server", "Error">>
      [] status = 503 -> <<"Service", "Unavailable">>
      [] OTHER -> <<>>

ErrorStatuses == {400, 408, 429, 503}

ErrorResponses ==
    {MkResponse(FALSE, s, StatusText(s), TRUE, FailedData("unauthorized", NoMsg), "complete") :
        s \in ErrorStatuses}
    \cup {MkResponse(FALSE, s, StatusText(s), FALSE, NoData, "complete") : s \in ErrorStatuses}
    \cup { MkResponse(FALSE, 400, StatusText(400), TRUE,
                      FailedData("operation_failed", StrMsg(<<"network", "timeout">>)),
                      "complete"),
           MkResponse(FALSE, 503, StatusText(503), TRUE, NoData, "never") }

NetErrors ==
    { MkError("TypeError", 0, <<"fetch", "failed">>),
      MkError("TypeError", 0, <<"Load", "failed">>),
      MkError("Error", 0, <<"connect", "ECONNREFUSED">>) }

MkNet(kind, error, response) == [kind |-> kind, error |-> error, response |-> response]
NoNet == MkNet("none", Undefined, NoResp)

(* What the backend and the network do with one request: never answer, fail
   the connection, or answer *)
NetBehaviours ==
    {MkNet("silent", Undefined, NoResp)}
    \cup {MkNet("error", e, NoResp) : e \in NetErrors}
    \cup {MkNet("response", Undefined, r) : r \in OkResponses \cup ErrorResponses}

TransportPolicy ==
    [maxAttempts |-> RETRY_CONFIG.maxAttempts, baseDelay |-> RETRY_CONFIG.baseDelay,
     maxDelay |-> RETRY_CONFIG.maxDelay,
     isRetryable |-> [kind |-> "isRetryableError", accept |-> {}]]

Pending == [state |-> "pending", value |-> NoData, error |-> Undefined]
Resolved(v) == [state |-> "resolved", value |-> v, error |-> Undefined]
Rejected(e) == [state |-> "rejected", value |-> NoData, error |-> e]

----------------------------------------------------------------------------
(* JavaScript values handed to the client and the facades. A string is a
   sequence of chunks: " " is a run of whitespace, any other chunk a run of
   other characters. A number is n + frac/10. *)

JsVal(t, s, n, frac) == [t |-> t, s |-> s, n |-> n, frac |-> frac]
Str(chunks) == JsVal("string", chunks, 0, 0)
Num(n) == JsVal("number", <<>>, n, 0)
NumHalf(n) == JsVal("number", <<>>, n, 5)
Obj(name) == JsVal("object", <<name>>, 0, 0)
Arr(name) == JsVal("array", <<name>>, 0, 0)
JsNull == JsVal("null", <<>>, 0, 0)
JsUndefined == JsVal("undefined", <<>>, 0, 0)

RECURSIVE TrimStart(_)
TrimStart(s) == IF s # <<>> /\ Head(s) = " " THEN TrimStart(Tail(s)) ELSE s

RECURSIVE TrimEnd(_)
TrimEnd(s) == IF s # <<>> /\ s[Len(s)] = " " THEN TrimEnd(SubSeq(s, 1, Len(s) - 1)) ELSE s

(* String.prototype.trim *)
Trim(s) == TrimEnd(TrimStart(s))

(* typeof value !== 'string' || value.trim().length === 0: whether the
   validation lets the value through *)
validateString(value) == value.t = "string" /\ Len(Trim(value.s)) # 0

(* utils/validation.js: validateStrings *)
validateStrings(values) == \A i \in DOMAIN values : validateString(values[i])

NumberIsInteger(value) == value.t = "number" /\ value.frac = 0

----------------------------------------------------------------------------
(* classes/cms.js, classes/queryBuilder.js, classes/wixRequest.js: the objects *)

Facades == {1, 2}

NoClient == [built |-> FALSE, username |-> JsUndefined, site |-> JsUndefined,
             token |-> JsUndefined]

NoFacade == [made |-> FALSE, collectionName |-> JsUndefined, token |-> JsUndefined,
             apiBase |-> <<>>, conditions |-> <<>>]

(* `https://${username}.wixsite.com/${site}/_functions` *)
ApiBase(username, site) ==
    <<"https://">> \o username.s \o <<".wixsite.com/">> \o site.s \o <<"/_functions">>

(* new QueryBuilder(...): an empty #conditions and a WixRequest *)
NewQueryBuilder(collectionName, username, site, token) ==
    [made |-> TRUE, collectionName |-> collectionName, token |-> token,
     apiBase |-> ApiBase(username, site), conditions |-> <<>>]

(* What a fluent method hands to #addCondition: field, operator, value, extraValue *)
Condition(field, operator, value, extraValue) ==
    [field |-> field, operator |-> Str(<<operator>>), value |-> value,
     extraValue |-> extraValue]

FluentMethods ==
    {"eq", "ne", "gt", "gte", "lt", "lte", "include", "contains", "startsWith",
     "endsWith", "between", "fields", "limit", "skip", "hasSome", "hasAll",
     "isEmpty", "isNotEmpty", "ascending", "descending"}

FluentCall(method, a, b, c) == [method |-> method, a |-> a, b |-> b, c |-> c]

(* Mutant of limit and skip: the value is not checked *)
FluentThrows_NoCheck(in) == FALSE

(* limit: !Number.isInteger(value) || value <= 0; skip: ... || value < 0 *)
FluentThrows(in) ==
    CASE in.method = "limit" -> ~NumberIsInteger(in.a) \/ in.a.n <= 0
      [] in.method = "skip" -> ~NumberIsInteger(in.a) \/ in.a.n < 0
      [] OTHER -> FALSE

(* The fluent methods of QueryBuilder *)
FluentCondition(in) ==
    CASE in.method \in {"eq", "ne", "gt", "gte", "lt", "lte", "contains", "startsWith",
                        "endsWith", "hasSome", "hasAll"} ->
            Condition(in.a, in.method, in.b, JsUndefined)
      [] in.method \in {"include", "fields", "isEmpty", "isNotEmpty", "ascending",
                        "descending"} ->
            Condition(in.a, in.method, JsUndefined, JsUndefined)
      [] in.method = "between" -> Condition(in.a, "between", in.b, in.c)
      [] in.method \in {"limit", "skip"} ->
            Condition(JsNull, in.method, in.a, JsUndefined)

(* Mutant of #addCondition: a repeated condition is dropped *)
addCondition_Dedup(conditions, cond) ==
    IF \E i \in DOMAIN conditions : conditions[i] = cond
    THEN conditions ELSE Append(conditions, cond)

(* #addCondition: this.#conditions.push({ field, operator, value, extraValue }) *)
addCondition(conditions, cond) == Append(conditions, cond)

(* Mutant of the fluent methods: one #conditions array for all QueryBuilders *)
FluentStores_Shared(fs, f, cond) ==
    [g \in Facades |-> [fs[g] EXCEPT !.conditions = addCondition(@, cond)]]

(* return this.#addCondition(...) in QueryBuilder f: this.#conditions is the
   array of f alone *)
FluentStores(fs, f, cond) == [fs EXCEPT ![f].conditions = addCondition(@, cond)]

(* const DEFAULT_OPTIONS = Object.freeze({ suppressAuth: true }); an options
   object is the set of its key-value pairs *)
DEFAULT_OPTIONS == {<<"suppressAuth", TRUE>>}
EmptyOptions == {}

NoCall == [id |-> 0, op |-> "none", facade |-> 0, route |-> "", keys |-> {}, item |-> JsUndefined,
           itemId |-> JsUndefined, options |-> EmptyOptions]

TerminalOps == {"insert", "save", "update", "remove", "truncate", "find"}

(* Mutant of the terminal methods: every one goes the way of find *)
TerminalCall_AllFind(f, op, arg) ==
    [NoCall EXCEPT !.op = op, !.facade = f, !.route = "query",
                   !.keys = {"conditions", "options"}]

(* The terminal methods of QueryBuilder and the methods of WixRequest they
   call: the route and the body handed to #executeQuery. The body of find
   holds this.#conditions, the array itself. *)
TerminalCall(f, op, arg) ==
    CASE op = "insert" -> [NoCall EXCEPT !.op = op, !.facade = f, !.route = "insertQuery",
                                         !.keys = {"item", "options"}, !.item = arg,
                                         !.options = DEFAULT_OPTIONS]
      [] op = "save" -> [NoCall EXCEPT !.op = op, !.facade = f, !.route = "saveQuery",
                                       !.keys = {"item", "options"}, !.item = arg,
                                       !.options = DEFAULT_OPTIONS]
      [] op = "update" -> [NoCall EXCEPT !.op = op, !.facade = f, !.route = "update",
                                         !.keys = {"item", "options"}, !.item = arg,
                                         !.options = DEFAULT_OPTIONS]
      [] op = "remove" -> [NoCall EXCEPT !.op = op, !.facade = f, !.route = "removeQuery",
                                         !.keys = {"itemId", "options"}, !.itemId = arg,
                                         !.options = DEFAULT_OPTIONS]
      [] op = "truncate" -> [NoCall EXCEPT !.op = op, !.facade = f,
                                           !.route = "truncateQuery",
                                           !.keys = {"options"},
                                           !.options = DEFAULT_OPTIONS]
      [] op = "find" -> [NoCall EXCEPT !.op = op, !.facade = f, !.route = "query",
                                       !.keys = {"conditions", "options"},
                                       !.options = EmptyOptions]

(* Mutant of JSON.stringify: keys whose value is undefined are kept *)
StringifyCondition_KeepsUndefined(cond) == cond

(* JSON.stringify of a condition: a key whose value is undefined is left out,
   null is kept *)
StringifyCondition(cond) ==
    [k \in {k \in DOMAIN cond : cond[k].t # "undefined"} |-> cond[k]]

StringifyConditions(conditions) ==
    [i \in DOMAIN conditions |-> StringifyCondition(conditions[i])]

(* The value of key k in { collection, token, ...body } when it is
   serialized: the conditions are those the array holds at that moment *)
BodyValue(c, k) ==
    CASE k = "collection" -> facades[c.facade].collectionName
      [] k = "token" -> facades[c.facade].token
      [] k = "item" -> c.item
      [] k = "itemId" -> c.itemId
      [] k = "conditions" -> StringifyConditions(facades[c.facade].conditions)
      [] k = "options" -> c.options

Defined(c, k) ==
    CASE k = "item" -> c.item.t # "undefined"
      [] k = "itemId" -> c.itemId.t # "undefined"
      [] OTHER -> TRUE

(* Mutant of #makeRequest: the body carries the number of the attempt *)
makeRequest_Numbered(c, n) ==
    [call |-> c.id, n |-> n, method |-> "POST",
     url |-> facades[c.facade].apiBase \o <<"/", c.route>>,
     body |-> [k \in {k \in {"collection", "token"} \cup c.keys : Defined(c, k)} \cup {"attempt"}
                  |-> IF k = "attempt" THEN Num(n) ELSE BodyValue(c, k)]]

(* #makeRequest: the options of fetch and the url, for attempt n of call c *)
makeRequest(c, n) ==
    [call |-> c.id, n |-> n, method |-> "POST",
     url |-> facades[c.facade].apiBase \o <<"/", c.route>>,
     body |-> [k \in {k \in {"collection", "token"} \cup c.keys : Defined(c, k)}
                  |-> BodyValue(c, k)]]

(* The arguments of a call on the client are kept in the same shape *)
NoInput == FluentCall("none", JsUndefined, JsUndefined, JsUndefined)

NoLast == [op |-> "none", facade |-> 0, input |-> NoInput, threw |-> FALSE,
           returned |-> 0]
Last(op, f, threw, returned) ==
    [op |-> op, facade |-> f, input |-> NoInput, threw |-> threw, returned |-> returned]

----------------------------------------------------------------------------
(* The bundled backend: the HTTP functions of the Wix site *)

(* The backend with SECRET_TOKEN set to secret, before any request *)
Server(secret) == [secret |-> secret, handled |-> <<>>]

(* A request as a handler sees it: the function name in the URL, whether
   JSON.parse(await request.body.text()) gives an object, gives null or
   throws, and the object *)
Request(route, parsed, body) == [route |-> route, parsed |-> parsed, body |-> body]

(* body.<k>: undefined when the key is absent *)
Field(body, k) == IF k \in DOMAIN body THEN body[k] ELSE JsUndefined

(* JavaScript truthiness of a value *)
JsTruthy(v) ==
    CASE v.t \in {"undefined", "null"} -> FALSE
      [] v.t = "string" -> v.s # <<>>
      [] v.t = "number" -> v.n # 0 \/ v.frac # 0
      [] OTHER -> TRUE

(* What a handler returns and the wixData calls it made on the way *)
Answer(http, json, data, ops) == [http |-> http, json |-> json, data |-> data, ops |-> ops]

(* Mutant of validateRequest: the collection is looked at first *)
validateRequest_CollectionFirst(body, secret) ==
    IF ~JsTruthy(Field(body, "collection")) THEN "collection_not_provided"
    ELSE IF Field(body, "token") # secret THEN "unauthorized"
    ELSE "null"

(* validateRequest: the error code of the body it returns, or null *)
validateRequest(body, secret) ==
    IF Field(body, "token") # secret THEN "unauthorized"
    ELSE IF ~JsTruthy(Field(body, "collection")) THEN "collection_not_provided"
    ELSE "null"

(* What a wixData promise settles with: a result, or an error, which the
   handler puts into the body as errorMessage *)
DbOutcomes ==
    { [ok |-> TRUE, error |-> NoMsg],
      [ok |-> FALSE, error |-> ObjMsg(<<>>, "", "", "WD_PERMISSION_DENIED")],
      [ok |-> FALSE, error |-> ObjMsg(<<>>, "", "", "")],
      [ok |-> FALSE, error |-> StrMsg(<<"network", "timeout">>)] }

(* handleOperation *)
handleOperation(db, ops) ==
    IF db.ok
    THEN Answer(200, TRUE, SuccessData, ops)
    ELSE Answer(400, TRUE, FailedData("operation_failed", db.error), ops)

(* The wixData call of post_saveQuery, post_removeQuery, post_truncateQuery
   and post_insertQuery *)
WixDataCall(route, body) ==
    CASE route = "saveQuery" ->
            IF Field(body, "item").t = "array" THEN "bulkSave" ELSE "save"
      [] route = "removeQuery" ->
            IF Field(body, "itemId").t = "array" THEN "bulkRemove" ELSE "remove"
      [] route = "truncateQuery" -> "truncate"
      [] route = "insertQuery" ->
            IF Field(body, "item").t = "array" THEN "bulkInsert" ELSE "insert"

(* post_saveQuery, post_removeQuery, post_truncateQuery, post_insertQuery
   once the body is parsed *)
post_mutation(route, body, secret, db) ==
    LET error == validateRequest(body, secret)
    IN IF error # "null"
       THEN Answer(400, TRUE, FailedData(error, NoMsg), <<>>)
       ELSE handleOperation(db, <<WixDataCall(route, body)>>)

(* The keys of the methods table of post_query and the wixData method of each *)
ServerOperators ==
    {"eq", "ne", "gt", "gte", "lt", "lte", "include", "contains", "startsWith",
     "endsWith", "between", "fields", "limit", "skip", "hasSome", "ascending",
     "descending"}

WixDataMethod(operator) ==
    CASE operator = "gte" -> "ge"
      [] operator = "lte" -> "le"
      [] OTHER -> operator

(* cond.operator as a key of the table *)
OperatorOf(cond) ==
    IF "operator" \in DOMAIN cond /\ cond.operator.t = "string" /\ Len(cond.operator.s) = 1
    THEN cond.operator.s[1]
    ELSE ""

(* post_query from wixData.query on: in the forEach callback a condition
   whose operator is not in the table sets response.body and returns from
   the callback, the others are applied; then query.find() runs and its
   then/catch sets response.body *)
QueryAnswer(conditions, db) ==
    LET known == SelectSeq(conditions, LAMBDA c : OperatorOf(c) \in ServerOperators)
        ops == <<"query">> \o [i \in DOMAIN known |-> WixDataMethod(OperatorOf(known[i]))]
               \o <<"find">>
    IN IF db.ok THEN Answer(200, TRUE, SuccessData, ops)
       ELSE Answer(400, TRUE, FailedData("query_failed", db.error), ops)

(* post_query once the body is parsed *)
post_query(body, secret, db) ==
    IF Field(body, "token") # secret
    THEN Answer(400, TRUE, FailedData("unauthorized", NoMsg), <<>>)
    ELSE IF ~JsTruthy(Field(body, "collection"))
    THEN Answer(400, TRUE, FailedData("collection_not_provided", NoMsg), <<>>)
    ELSE QueryAnswer(IF "conditions" \in DOMAIN body THEN body.conditions ELSE <<>>, db)

(* The exported functions: post_<name> serves POST /_functions/<name> *)
Handlers == {"saveQuery", "removeQuery", "truncateQuery", "insertQuery", "query"}

HasHandler(route) == route \in Handlers

(* A POST to /_functions/<route>. Without a handler of that name the
   platform answers 404; a handler that throws (JSON.parse of a body that is
   no JSON, body.token of null) makes it answer 500. *)
HandleRequest(req, secret, db) ==
    IF ~HasHandler(req.route) THEN Answer(404, FALSE, NoData, <<>>)
    ELSE IF req.parsed # "object" THEN Answer(500, FALSE, NoData, <<>>)
    ELSE IF req.route = "query" THEN post_query(req.body, secret, db)
    ELSE post_mutation(req.route, req.body, secret, db)

(* ok(response) / badRequest(response) and the platform's answers on the wire *)
ServerResponse(ans) ==
    MkResponse(ans.http = 200, ans.http,
               IF ans.http = 200 THEN <<"OK">> ELSE StatusText(ans.http),
               ans.json, ans.data, "complete")

----------------------------------------------------------------------------
(* utils/requestHelpers.js: withRetry *)

IsRetryable(pol, error) ==
    CASE pol.isRetryable.kind = "default" -> TRUE
      [] pol.isRetryable.kind = "set" -> error \in pol.isRetryable.accept
      [] OTHER -> isRetryableError(error)

(* Mutant of the backoff: every wait is the cap *)
BackoffDelay_AlwaysCap(baseDelay, maxDelay, n) == maxDelay

(* Mutant of the backoff: the exponent is the attempt number *)
BackoffDelay_ExponentOff(baseDelay, maxDelay, n) == Min(baseDelay * Pow2(n), maxDelay)

(* const exponentialDelay = baseDelay * Math.pow(2, attempt - 1);
   const delay = Math.min(exponentialDelay, maxDelay); *)
BackoffDelay(baseDelay, maxDelay, n) == Min(baseDelay * Pow2(n - 1), maxDelay)

(* Mutants of the give-up test: one attempt short; the predicate ignored *)
GivesUp_OneShort(pol, n, error) == n + 1 >= pol.maxAttempts \/ ~IsRetryable(pol, error)
GivesUp_IgnoresPredicate(pol, n, error) == n = pol.maxAttempts

(* if (attempt === maxAttempts || !isRetryable(error)) throw error; *)
GivesUp(pol, n, error) == n = pol.maxAttempts \/ ~IsRetryable(pol, error)

Ev(t, n) == [t |-> t, n |-> n]
EvErr(t, n, error) == [t |-> t, n |-> n, error |-> error]
EvRetry(n, error, delay) == [t |-> "onRetry", n |-> n, error |-> error, delay |-> delay]
EvSleep(n, delay) == [t |-> "sleep", n |-> n, delay |-> delay]
EvVal(n, value) == [t |-> "returned", n |-> n, value |-> value]
EvResp(n, response) == [t |-> "response", n |-> n, response |-> response]

(* Mutant of the loop: the body runs before the condition is looked at *)
EnterLoop_BodyFirst(who, pol, n, ev) ==
    IF n <= pol.maxAttempts \/ n = 1
    THEN /\ outcome' = Pending
         /\ IF who = "transport"
            THEN /\ pc' = "fetch"
                 /\ timer' = "armed"
                 /\ net' \in NetBehaviours
                 /\ events' = ev \o <<Ev("fn", n), Ev("fetch", n)>>
            ELSE /\ pc' = "fn"
                 /\ timer' = "none"
                 /\ net' = NoNet
                 /\ events' = Append(ev, Ev("fn", n))
    ELSE /\ pc' = "rejected"
         /\ outcome' = Rejected(lastError)
         /\ events' = ev
         /\ timer' = timer
         /\ net' = NoNet

(* The loop head with attempt = n: the condition, then fn(attempt) up to its
   first await. The transport's fn builds the request and calls
   fetchWithTimeout, which arms the timer and calls fetch. *)
EnterLoop(who, pol, n, ev) ==
    IF n <= pol.maxAttempts
    THEN /\ outcome' = Pending
         /\ IF who = "transport"
            THEN /\ pc' = "fetch"
                 /\ timer' = "armed"
                 /\ net' \in NetBehaviours
                 /\ events' = ev \o <<Ev("fn", n), Ev("fetch", n)>>
            ELSE /\ pc' = "fn"
                 /\ timer' = "none"
                 /\ net' = NoNet
                 /\ events' = Append(ev, Ev("fn", n))
    ELSE /\ pc' = "rejected"
         /\ outcome' = Rejected(lastError)
         /\ events' = ev
         /\ timer' = timer
         /\ net' = NoNet

(* Mutant of the catch block: the sleep comes before the observer *)
Catch_SleepFirst(error) ==
    /\ lastError' = error
    /\ IF GivesUp(policy, attempt, error)
       THEN /\ pc' = "rejected"
            /\ outcome' = Rejected(error)
            /\ events' = Append(events, EvErr("threw", attempt, error))
       ELSE LET delay == BackoffDelay(policy.baseDelay, policy.maxDelay, attempt)
            IN /\ pc' = "sleep"
               /\ outcome' = Pending
               /\ events' = events \o <<EvErr("threw", attempt, error),
                                        EvSleep(attempt, delay),
                                        EvRetry(attempt, error, delay)>>

(* Mutant of the catch block: the next request leaves while the loop sleeps *)
Catch_Speculative(error) ==
    /\ lastError' = error
    /\ IF GivesUp(policy, attempt, error)
       THEN /\ pc' = "rejected"
            /\ outcome' = Rejected(error)
            /\ events' = Append(events, EvErr("threw", attempt, error))
       ELSE LET delay == BackoffDelay(policy.baseDelay, policy.maxDelay, attempt)
            IN /\ pc' = "sleep"
               /\ outcome' = Pending
               /\ events' = events \o <<EvErr("threw", attempt, error),
                                        EvRetry(attempt, error, delay),
                                        EvSleep(attempt, delay),
                                        Ev("fetch", attempt + 1)>>

(* The catch block of the loop for the error attempt `attempt` threw *)
Catch(error) ==
    /\ lastError' = error
    /\ IF GivesUp(policy, attempt, error)
       THEN /\ pc' = "rejected"
            /\ outcome' = Rejected(error)
            /\ events' = Append(events, EvErr("threw", attempt, error))
       ELSE LET delay == BackoffDelay(policy.baseDelay, policy.maxDelay, attempt)
            IN /\ pc' = "sleep"
               /\ outcome' = Pending
               /\ events' = events \o <<EvErr("threw", attempt, error),
                                        EvRetry(attempt, error, delay),
                                        EvSleep(attempt, delay)>>

(* Mutant of the return: the value is dropped and the loop goes on *)
Return_FallsThrough(value) ==
    /\ pc' = "sleep"
    /\ outcome' = Pending
    /\ events' = Append(events, EvVal(attempt, value))
    /\ UNCHANGED lastError

(* return await fn(attempt) *)
Return(value) ==
    /\ pc' = "resolved"
    /\ outcome' = Resolved(value)
    /\ events' = Append(events, EvVal(attempt, value))
    /\ UNCHANGED lastError

(* withRetry(fn, config) with a caller's fn and config *)
CallWithRetry ==
    /\ pc = "idle"
    /\ \E pol \in GenericPolicies :
          /\ caller' = "generic"
          /\ policy' = pol
          /\ attempt' = 1
          /\ EnterLoop("generic", pol, 1, <<>>)
    /\ UNCHANGED <<lastError, resp, clsErr, clsOut, facadeVars, sent>>

(* A terminal call: #executeQuery calls withRetry with isRetryableError and
   the RETRY_CONFIG defaults *)
ExecuteQuery ==
    /\ pc = "idle"
    /\ caller' = "transport"
    /\ policy' = TransportPolicy
    /\ attempt' = 1
    /\ EnterLoop("transport", TransportPolicy, 1, <<>>)
    /\ UNCHANGED <<lastError, resp, clsErr, clsOut, facadeVars, sent>>

(* The caller's fn settles *)
FnReturns ==
    /\ pc = "fn"
    /\ \E v \in GenValues : Return(v)
    /\ UNCHANGED <<caller, policy, attempt, timer, net, resp, clsErr, clsOut, facadeVars, sent>>

FnThrows ==
    /\ pc = "fn"
    /\ \E e \in GenErrors : Catch(e)
    /\ UNCHANGED <<caller, policy, attempt, timer, net, resp, clsErr, clsOut, facadeVars, sent>>

(* sleep(delay) ends: attempt++, the loop head again *)
Wake ==
    /\ pc = "sleep"
    /\ attempt' = attempt + 1
    /\ EnterLoop(caller, policy, attempt + 1, events)
    /\ sent' = IF call.op # "none" THEN Append(sent, makeRequest(call, attempt + 1)) ELSE sent
    /\ UNCHANGED <<caller, policy, lastError, resp, clsErr, clsOut, facadeVars>>

----------------------------------------------------------------------------
(* fetchWithTimeout, #makeRequest and handleResponse inside one attempt *)

RequestTimeoutError == MkError("Error", 0, <<"Request", "timeout", "after", "30000ms">>)

(* fetch resolves: clearTimeout, then #makeRequest looks at response.ok and
   either createDetailedError or handleResponse starts reading the body *)
FetchResolves ==
    /\ pc = "fetch"
    /\ net.kind = "response"
    /\ timer' = "cleared"
    /\ resp' = net.response
    /\ net' = NoNet
    /\ pc' = IF net.response.ok THEN "okBody" ELSE "errorBody"
    /\ events' = Append(events, EvResp(attempt, net.response))
    /\ UNCHANGED <<caller, policy, attempt, lastError, outcome, clsErr, clsOut, facadeVars, sent>>

(* fetch rejects with an error of its own: clearTimeout, rethrow *)
FetchRejects ==
    /\ pc = "fetch"
    /\ net.kind = "error"
    /\ timer' = "cleared"
    /\ net' = NoNet
    /\ Catch(net.error)
    /\ UNCHANGED <<caller, policy, attempt, resp, clsErr, clsOut, facadeVars, sent>>

(* The timer fires: controller.abort(), fetch rejects with an AbortError,
   which fetchWithTimeout turns into the timeout error *)
TimerFires ==
    /\ timer = "armed"
    /\ timer' = "fired"
    /\ net' = NoNet
    /\ Catch(RequestTimeoutError)
    /\ UNCHANGED <<caller, policy, attempt, resp, clsErr, clsOut, facadeVars, sent>>

(* handleResponse: response.json() settles *)
OkBodyRead ==
    /\ pc = "okBody"
    /\ resp.bodyEnd \in {"complete", "broken"}
    /\ resp' = NoResp
    /\ IF resp.bodyEnd = "broken"
       THEN Catch(MkError("TypeError", 0, <<"terminated">>))
       ELSE IF ~resp.json
       THEN Catch(MkError("SyntaxError", 0, <<"Unexpected", "token">>))
       ELSE IF handleResponse(resp.data).threw
       THEN Catch(handleResponse(resp.data).error)
       ELSE Return(handleResponse(resp.data).value)
    /\ UNCHANGED <<caller, policy, attempt, timer, net, clsErr, clsOut, facadeVars, sent>>

(* createDetailedError: the body is read (as JSON, else as text, else null)
   and #makeRequest throws the detailed error *)
ErrorBodyRead ==
    /\ pc = "errorBody"
    /\ resp.bodyEnd \in {"complete", "broken"}
    /\ resp' = NoResp
    /\ Catch(createDetailedError(resp.status, resp.statusText,
                                 resp.json /\ resp.bodyEnd = "complete", resp.data))
    /\ UNCHANGED <<caller, policy, attempt, timer, net, clsErr, clsOut, facadeVars, sent>>

----------------------------------------------------------------------------
(* classes/cms.js and classes/queryBuilder.js: the calls a program makes *)

MaxFluent == 2
MaxCalls == 2

Identities ==
    { <<Str(<<"acme">>), Str(<<"shop">>), Str(<<"t1">>)>>,
      <<Str(<<>>), Str(<<"shop">>), Str(<<"t1">>)>>,
      <<Str(<<"acme">>), Str(<<" ">>), Str(<<"t1">>)>>,
      <<Str(<<"acme">>), Str(<<"shop">>), JsUndefined>>,
      <<Num(7), Str(<<"shop">>), Str(<<"t1">>)>> }

CollectionNames ==
    {Str(<<"Posts">>), Str(<<"Users">>), Str(<<>>), Str(<<" ">>), JsUndefined}

FluentInputs ==
    { FluentCall("eq", Str(<<"status">>), Str(<<"published">>), JsUndefined),
      FluentCall("limit", Num(10), JsUndefined, JsUndefined),
      FluentCall("limit", Num(0), JsUndefined, JsUndefined),
      FluentCall("limit", Num(-5), JsUndefined, JsUndefined),
      FluentCall("limit", NumHalf(2), JsUndefined, JsUndefined),
      FluentCall("limit", Str(<<"10">>), JsUndefined, JsUndefined),
      FluentCall("skip", Num(0), JsUndefined, JsUndefined),
      FluentCall("skip", Num(-1), JsUndefined, JsUndefined) }

TerminalArg(op) ==
    CASE op \in {"insert", "save", "update"} -> Obj("post")
      [] op = "remove" -> Str(<<"id1">>)
      [] OTHER -> JsUndefined

(* Mutant of #validateCredentials: only the type is looked at *)
validateCredentials_TypeOnly(username, site, token) ==
    \A v \in {username, site, token} : v.t = "string"

(* WixCMS.#validateCredentials: whether it lets the three through *)
validateCredentials(username, site, token) ==
    validateString(username) /\ validateString(site) /\ validateString(token)

(* WixCMS.#validateCollectionName *)
validateCollectionName(collectionName) == validateString(collectionName)

(* new WixCMS(username, site, token) *)
NewWixCMS ==
    /\ ~client.built
    /\ \E id \in Identities :
        LET in == FluentCall("WixCMS", id[1], id[2], id[3])
        IN IF validateCredentials(id[1], id[2], id[3])
           THEN /\ client' = [built |-> TRUE, username |-> id[1], site |-> id[2],
                              token |-> id[3]]
                /\ last' = [Last("new", 0, FALSE, 0) EXCEPT !.input = in]
           ELSE /\ last' = [Last("new", 0, TRUE, 0) EXCEPT !.input = in]
                /\ UNCHANGED client
    /\ UNCHANGED <<retryVars, clsErr, clsOut, facades, fluentLog, call, calls, sent, server>>

(* WixCMS.query(collectionName) *)
Query(collectionName) ==
    /\ client.built
    /\ IF /\ validateCollectionName(collectionName)
          /\ validateStrings(<<collectionName, client.username, client.site, client.token>>)
       THEN \E f \in Facades :
               /\ ~facades[f].made
               /\ \A g \in Facades : g < f => facades[g].made
               /\ facades' = [facades EXCEPT ![f] =
                                 NewQueryBuilder(collectionName, client.username,
                                                 client.site, client.token)]
               /\ last' = [Last("query", 0, FALSE, f) EXCEPT
                              !.input = FluentCall("query", collectionName, JsUndefined,
                                                   JsUndefined)]
       ELSE /\ last' = [Last("query", 0, TRUE, 0) EXCEPT
                           !.input = FluentCall("query", collectionName, JsUndefined,
                                                JsUndefined)]
            /\ UNCHANGED facades
    /\ UNCHANGED <<retryVars, clsErr, clsOut, client, fluentLog, call, calls, sent, server>>

FluentCalls == LET Sum[f \in 0..2] == IF f = 0 THEN 0 ELSE Len(fluentLog[f]) + Sum[f - 1]
               IN Sum[2]

(* The fluent call in is made on facade f *)
Fluent(f, in) ==
    /\ facades[f].made
    /\ FluentCalls < MaxFluent
    /\ IF FluentThrows(in)
       THEN /\ last' = [Last("fluent", f, TRUE, 0) EXCEPT !.input = in]
            /\ UNCHANGED <<facades, fluentLog>>
       ELSE /\ facades' = FluentStores(facades, f, FluentCondition(in))
            /\ fluentLog' = [fluentLog EXCEPT ![f] = Append(@, in)]
            /\ last' = [Last("fluent", f, FALSE, f) EXCEPT !.input = in]
    /\ UNCHANGED <<retryVars, clsErr, clsOut, client, call, calls, sent, server>>

(* The backend behaviours the facades are run against *)
Answer503 == MkResponse(FALSE, 503, StatusText(503), FALSE, NoData, "complete")
AnswerSuccess == MkResponse(TRUE, 200, <<"OK">>, TRUE, SuccessData, "complete")
AnswerFailed ==
    MkResponse(TRUE, 200, <<"OK">>, TRUE, FailedData("operation_failed", NoMsg), "complete")

FacadeNet ==
    {MkNet("response", Undefined, r) : r \in {Answer503, AnswerSuccess, AnswerFailed}}

(* Mutant of the terminal methods: the builder is emptied for the next query *)
AfterTerminal_Resets(fs, f) == [fs EXCEPT ![f].conditions = <<>>]

(* The QueryBuilders once a terminal method of f has made its call: none
   assigns #conditions or any other field *)
AfterTerminal(fs, f) == fs

(* A terminal method of facade f is called: the WixRequest method,
   #executeQuery, withRetry and the first call of #makeRequest up to fetch *)
Terminal(f, op) ==
    /\ facades[f].made
    /\ pc \in {"idle", "resolved", "rejected"}
    /\ calls < MaxCalls
    /\ calls' = calls + 1
    /\ call' = [TerminalCall(f, op, TerminalArg(op)) EXCEPT !.id = calls + 1]
    /\ sent' = <<makeRequest(call', 1)>>
    /\ last' = Last("terminal", f, FALSE, 0)
    /\ caller' = "transport"
    /\ policy' = TransportPolicy
    /\ attempt' = 1
    /\ lastError' = Undefined
    /\ resp' = NoResp
    /\ EnterLoop("transport", TransportPolicy, 1, <<>>)
    /\ server' = [server EXCEPT !.handled = <<>>]
    /\ facades' = AfterTerminal(facades, f)
    /\ UNCHANGED <<clsErr, clsOut, client, fluentLog>>

(* The calls of a program that runs every terminal operation *)
QueryCalled == \E name \in {Str(<<"Posts">>), Str(<<"Users">>)} : Query(name)

FluentCalled ==
    \E f \in Facades :
        Fluent(f, FluentCall("eq", Str(<<"status">>), Str(<<"published">>), JsUndefined))

TerminalCalled == \E f \in Facades, op \in TerminalOps : Terminal(f, op) /\ net' \in FacadeNet

(* The calls of a program that hands the client and the facades every kind
   of argument and runs find against a backend that answers *)
QueryAny == \E name \in CollectionNames : Query(name)

FluentAny == \E f \in Facades, in \in FluentInputs : Fluent(f, in)

FindCalled ==
    \E f \in Facades : Terminal(f, "find") /\ net' = MkNet("response", Undefined, AnswerSuccess)

(* sleep(delay) ends under the facades' backend *)
WakeFacade == Wake /\ net' \in FacadeNet

(* QueryBuilder.find after findQuery has resolved or rejected: a result
   with status "failed" is thrown as an Error, anything else is passed on *)
findOutcome(o) ==
    IF o.state = "resolved" /\ ~o.value.isNull /\ o.value.statusType = "string"
       /\ o.value.status = "failed"
    THEN Rejected(MkError("Error", 0, <<"Query", "failed">>))
    ELSE o

(* What the promise of the terminal call in flight settles with *)
TerminalOutcome == IF call.op = "find" THEN findOutcome(outcome) ELSE outcome

----------------------------------------------------------------------------
(* isRetryableError on its own *)

ClsStatuses == {0, 302, 400, 401, 403, 404, 408, 409, 418, 428, 429, 430, 499,
                500, 502, 503, 599, 600}

ClsMessages ==
    { <<>>, <<"HTTP">>, <<"Request", "timeout">>, <<"network", "down">>,
      <<"fetch", "failed">>, <<"connect", "ECONNREFUSED">>, <<"ETIMEDOUT">>,
      <<"Load", "failed">> }

Classify ==
    /\ clsOut = "unset"
    /\ clsOut' = IF isRetryableError(clsErr) THEN "retryable" ELSE "final"
    /\ UNCHANGED <<retryVars, clsErr, facadeVars, sent>>

----------------------------------------------------------------------------

InitRetry ==
    /\ pc = "idle"
    /\ caller = "none"
    /\ policy = TransportPolicy
    /\ attempt = 0
    /\ lastError = Undefined
    /\ outcome = Pending
    /\ events = <<>>
    /\ timer = "none"
    /\ net = NoNet
    /\ resp = NoResp
    /\ client = NoClient
    /\ facades = [f \in Facades |-> NoFacade]
    /\ fluentLog = [f \in Facades |-> <<>>]
    /\ last = NoLast
    /\ call = NoCall
    /\ calls = 0
    /\ sent = <<>>

Init ==
    /\ InitRetry
    /\ clsErr = Undefined
    /\ clsOut = "idle"
    /\ server = Server(Str(<<"t1">>))

Next ==
    \/ CallWithRetry
    \/ ExecuteQuery
    \/ FnReturns
    \/ FnThrows
    \/ Wake
    \/ FetchResolves
    \/ FetchRejects
    \/ TimerFires
    \/ OkBodyRead
    \/ ErrorBodyRead

Spec == Init /\ [][Next]_vars

(* The errors #makeRequest throws: createDetailedError of a response that is
   not ok, with the message its body gives it *)
InitClassify ==
    /\ InitRetry
    /\ clsErr \in {createDetailedError(s, StatusText(s), parsed,
                                       FailedData("operation_failed", StrMsg(m))) :
                       s \in ClsStatuses, parsed \in BOOLEAN, m \in ClsMessages}
    /\ clsOut = "unset"
    /\ server = Server(Str(<<"t1">>))

NextClassify == Classify

(* Timers fire and settled promises run their continuations; whether the
   backend ever answers, or ever ends a body, is not assumed but chosen with
   the request (net) *)
FairSpec ==
    /\ Spec
    /\ WF_vars(Wake) /\ WF_vars(TimerFires)
    /\ WF_vars(FetchResolves) /\ WF_vars(FetchRejects)
    /\ WF_vars(OkBodyRead) /\ WF_vars(ErrorBodyRead)
    /\ WF_vars(FnReturns \/ FnThrows)

SpecClassify == InitClassify /\ [][NextClassify]_vars

(* A program that builds a client, makes facades and uses them *)
NextFacade ==
    \/ NewWixCMS
    \/ QueryCalled
    \/ FluentCalled
    \/ TerminalCalled
    \/ WakeFacade
    \/ FetchResolves
    \/ OkBodyRead
    \/ ErrorBodyRead

SpecFacade == Init /\ [][NextFacade]_vars

(* A program that builds a client, makes facades and queries with them *)
NextBuild ==
    \/ NewWixCMS
    \/ QueryAny
    \/ FluentAny
    \/ FindCalled
    \/ FetchResolves
    \/ OkBodyRead

SpecBuild == Init /\ [][NextBuild]_vars

----------------------------------------------------------------------------
(* What the log of a run says *)

Of(t) == SelectSeq(events, LAMBDA e : e.t = t)
Count(t) == Len(Of(t))
Settled == pc \in {"resolved", "rejected"}
Running == caller # "none"

(* min(baseDelay * 2^(n-1), maxDelay), stated without the model's operators *)
ExpectedDelay(n) ==
    LET exponential == policy.baseDelay * (2 ^ (n - 1))
    IN IF exponential < policy.maxDelay THEN exponential ELSE policy.maxDelay

----------------------------------------------------------------------------
(* C1. Retry bound: with maxAttempts = k >= 1 and every attempt failing with
   an error isRetryable accepts, the operation is invoked exactly k times, as
   attempts 1..k in order, and the run then rejects with the error of the
   k-th attempt; with k = 1 there is one invocation and no retry. *)
C1_RetryBound ==
    LET k == policy.maxAttempts
        fns == Of("fn")
        throws == Of("threw")
    IN (/\ Running
        /\ k >= 1
        /\ Count("returned") = 0
        /\ \A i \in DOMAIN throws : IsRetryable(policy, throws[i].error))
       => /\ Len(fns) <= k
          /\ \A i \in DOMAIN fns : fns[i].n = i
          /\ Len(throws) = k <=> Settled
          /\ Settled => /\ pc = "rejected"
                        /\ Len(fns) = k
                        /\ outcome = Rejected(throws[k].error)
          /\ k = 1 => Count("onRetry") = 0 /\ Count("sleep") = 0

C1_Witness ==
    /\ caller = "generic"
    /\ policy.maxAttempts = 3
    /\ pc = "rejected"
    /\ Count("fn") = 3
    /\ Count("returned") = 0
    /\ \A i \in DOMAIN Of("threw") : IsRetryable(policy, Of("threw")[i].error)
    /\ Of("threw")[3].error # Of("threw")[1].error
    /\ outcome.error = Of("threw")[3].error

(* C2. Non-retryable short-circuit: an attempt n that fails with an error
   isRetryable refuses ends the run: it rejects with exactly that error, the
   operation has been invoked exactly n times, and no onRetry call and no
   sleep follow attempt n. *)
C2_NonRetryableShortCircuit ==
    \A i \in DOMAIN events :
        (events[i].t = "threw" /\ ~IsRetryable(policy, events[i].error))
        => /\ i = Len(events)
           /\ pc = "rejected"
           /\ outcome = Rejected(events[i].error)
           /\ Count("fn") = events[i].n
           /\ Count("onRetry") = events[i].n - 1
           /\ Count("sleep") = events[i].n - 1

C2_Witness ==
    /\ caller = "generic"
    /\ pc = "rejected"
    /\ policy.maxAttempts = 4
    /\ Count("fn") = 2
    /\ IsRetryable(policy, Of("threw")[1].error)
    /\ ~IsRetryable(policy, Of("threw")[2].error)

(* C3. The run resolves with the value of the first attempt that succeeds and
   never invokes the operation after a success: if attempt n is the first to
   succeed, there are n invocations and the value is attempt n's; a failure
   that isRetryable refuses is never replaced by a later result. *)
C3_FirstSuccessWins ==
    /\ \A i \in DOMAIN events :
          events[i].t = "returned"
          => /\ i = Len(events)
             /\ outcome = Resolved(events[i].value)
             /\ pc = "resolved"
             /\ Count("fn") = events[i].n
             /\ Count("threw") = events[i].n - 1
    /\ pc = "resolved" => Count("returned") = 1
    /\ \A i \in DOMAIN events :
          (events[i].t = "threw" /\ ~IsRetryable(policy, events[i].error))
          => outcome.state # "resolved" /\ Count("returned") = 0

C3_Witness ==
    /\ caller = "generic"
    /\ pc = "resolved"
    /\ policy.maxAttempts = 4
    /\ Count("fn") = 2
    /\ Count("threw") = 1
    /\ outcome.value = GenValue("vb")

(* C4 as amended. The delay computed after failed attempt n, handed to onRetry
   and to the sleep before attempt n+1, is min(baseDelay * 2^(n-1), maxDelay)
   for any baseDelay and maxDelay; for non-negative baseDelay the successive
   delays are non-decreasing, stay at maxDelay once clamped, and all equal
   maxDelay when baseDelay > maxDelay. *)
C4_Backoff ==
    LET retries == Of("onRetry")
        sleeps == Of("sleep")
    IN /\ Len(retries) = Len(sleeps)
       /\ \A i \in DOMAIN retries :
             /\ retries[i].n = i
             /\ retries[i].delay = ExpectedDelay(i)
             /\ sleeps[i].n = i
             /\ sleeps[i].delay = retries[i].delay
       /\ policy.baseDelay >= 0 =>
             /\ \A i, j \in DOMAIN retries :
                   i <= j => /\ retries[i].delay <= retries[j].delay
                             /\ retries[i].delay = policy.maxDelay
                                   => retries[j].delay = policy.maxDelay
             /\ policy.baseDelay > policy.maxDelay =>
                   \A i \in DOMAIN retries : retries[i].delay = policy.maxDelay

C4_Witness ==
    /\ policy.baseDelay = 1
    /\ policy.maxDelay = 2
    /\ Count("sleep") = 3
    /\ Of("sleep")[1].delay = 1
    /\ Of("sleep")[2].delay = 2
    /\ Of("sleep")[3].delay = 2

(* C4 as stated: the same, with "when baseDelay > maxDelay every delay equals
   maxDelay" for any baseDelay, negative ones included. *)
C4_BackoffAsStated ==
    /\ C4_Backoff
    /\ policy.baseDelay > policy.maxDelay =>
          \A i \in DOMAIN Of("onRetry") : Of("onRetry")[i].delay = policy.maxDelay

(* C5. isRetryableError is true for every error whose status is 429, 408 or in
   500..599 and false for every error whose status is another value in
   400..499, whatever its message. *)
C5_Classification ==
    clsOut \in {"retryable", "final"} =>
        /\ (clsErr.status \in {429, 408} \cup 500..599) => clsOut = "retryable"
        /\ (clsErr.status \in (400..499) \ {429, 408}) => clsOut = "final"

C5_Witness ==
    /\ clsOut = "final"
    /\ clsErr.status = 404
    /\ Includes(clsErr.message, "timeout")

----------------------------------------------------------------------------
(* The transport's attempts *)

NetworkLevel(error) == error \in NetErrors \cup {RequestTimeoutError}

MalformedError == MkError("Error", 0, <<"Invalid", "response", "format", "from", "Wix", "API">>)

(* The body of the i-th event, an HTTP-ok response with a JSON body, has been
   read by handleResponse *)
OkBodyHandled(i) ==
    /\ events[i].t = "response"
    /\ events[i].response.ok
    /\ events[i].response.json
    /\ events[i].response.bodyEnd = "complete"
    /\ i < Len(events)

(* C6. Every network-level failure of an attempt (the timeout error of
   fetchWithTimeout, a connection failure reported by fetch) is retried while
   attempts remain and is surfaced only after maxAttempts attempts. *)
C6_NetworkFailuresRetried ==
    caller = "transport" =>
        /\ \A i \in DOMAIN events :
              (/\ events[i].t = "threw"
               /\ NetworkLevel(events[i].error)
               /\ events[i].n < policy.maxAttempts)
              => /\ i < Len(events)
                 /\ events[i + 1].t = "onRetry"
        /\ (pc = "rejected" /\ NetworkLevel(outcome.error))
              => Count("fetch") = policy.maxAttempts

(* C7. An HTTP-ok, well-formed response with status "failed" is never
   retried, whatever its error code and errorMessage: the failure propagates
   at once, and when it answers the first attempt the call has made exactly
   one HTTP request. *)
C7_ApplicationErrorsNotRetried ==
    caller = "transport" =>
        \A i \in DOMAIN events :
            (/\ OkBodyHandled(i)
             /\ events[i].response.data.statusType = "string"
             /\ events[i].response.data.status = "failed")
            => /\ events[i + 1].t = "threw"
               /\ i + 1 = Len(events)
               /\ pc = "rejected"
               /\ outcome = Rejected(events[i + 1].error)
               /\ Count("fetch") = events[i].n

(* C8. An HTTP-ok response whose body has no status field, or a status that
   is not a string, ends the call with the malformed-response error: no
   request, onRetry call or sleep follows it, so as the answer to the first
   attempt it leaves exactly one HTTP request. *)
C8_MalformedTerminal ==
    caller = "transport" =>
        \A i \in DOMAIN events :
            (/\ OkBodyHandled(i)
             /\ events[i].response.data.statusType \in {"missing", "number"})
            => /\ events[i + 1] = EvErr("threw", events[i].n, MalformedError)
               /\ i + 1 = Len(events)
               /\ pc = "rejected"
               /\ outcome = Rejected(MalformedError)
               /\ Count("fetch") = events[i].n
               /\ Count("onRetry") = events[i].n - 1
               /\ Count("sleep") = events[i].n - 1

C8_Witness ==
    /\ caller = "transport"
    /\ pc = "rejected"
    /\ outcome = Rejected(MalformedError)
    /\ Count("fetch") = 1
    /\ Count("sleep") = 0
    /\ Of("response")[1].response.data.statusType = "number"

(* C9. Every attempt runs under the per-attempt timeout from the request to
   the end of reading its body: while an attempt is pending its timer is
   armed, so it cannot stay pending past the timeout. *)
C9_AttemptUnderTimeout ==
    pc \in {"fetch", "okBody", "errorBody"} => timer = "armed"

(* C10. Every terminal call eventually settles, whatever the backend does,
   after at most maxAttempts attempts and maxAttempts - 1 sleeps. *)
C10_EventuallySettles ==
    /\ [](caller = "transport" =>
            /\ Count("fetch") <= policy.maxAttempts
            /\ Count("sleep") <= policy.maxAttempts - 1)
    /\ (caller = "transport") ~> Settled

----------------------------------------------------------------------------
(* What the requests of a terminal call say *)

(* The operands a serialized condition carries, in the order field, value,
   extraValue; a null field is no operand *)
EntryOperands(e) ==
    (IF "field" \in DOMAIN e /\ e.field.t # "null" THEN <<e.field>> ELSE <<>>)
    \o (IF "value" \in DOMAIN e THEN <<e.value>> ELSE <<>>)
    \o (IF "extraValue" \in DOMAIN e THEN <<e.extraValue>> ELSE <<>>)

(* The arguments a fluent call was given *)
CallOperands(in) == SelectSeq(<<in.a, in.b, in.c>>, LAMBDA v : v.t # "undefined")

(* The serialized condition is the operator and the operands of the call *)
EntryOf(e, in) == e.operator = Str(<<in.method>>) /\ EntryOperands(e) = CallOperands(in)

(* How many arguments each fluent method takes *)
Arity(method) ==
    CASE method = "between" -> 3
      [] method \in {"include", "fields", "limit", "skip", "isEmpty", "isNotEmpty",
                     "ascending", "descending"} -> 1
      [] OTHER -> 2

SampleCall(method) ==
    FluentCall(method,
               IF method \in {"limit", "skip"} THEN Num(4) ELSE Str(<<"age">>),
               IF Arity(method) >= 2 THEN Num(1) ELSE JsUndefined,
               IF Arity(method) = 3 THEN Num(9) ELSE JsUndefined)

(* find() has just been invoked: no call on the client or a facade since *)
FindJustCalled == call.op = "find" /\ last.op = "terminal" /\ Len(sent) >= 1

----------------------------------------------------------------------------
(* C11. Order preservation: after N fluent calls on a facade, in any mix and
   with repeats, the conditions array find() sends has exactly N entries and
   the i-th entry is the operator and the operands of the i-th call; every
   fluent method yields the entry of its own operator and operands. *)
C11_OrderPreserved ==
    /\ FindJustCalled =>
        LET cs == sent[1].body.conditions
            log == fluentLog[call.facade]
        IN /\ Len(cs) = Len(log)
           /\ \A i \in 1..Len(log) : EntryOf(cs[i], log[i])
    /\ \A method \in FluentMethods :
        LET in == SampleCall(method)
            after == StringifyConditions(addCondition(<<>>, FluentCondition(in)))
        IN ~FluentThrows(in) /\ Len(after) = 1 /\ EntryOf(after[1], in)

(* find() sent after the same call was made twice on the facade *)
C11_Witness ==
    /\ FindJustCalled
    /\ Len(fluentLog[call.facade]) = 2
    /\ fluentLog[call.facade][1] = fluentLog[call.facade][2]
    /\ Len(sent[1].body.conditions) = 2


PositiveInteger(v) == v.t = "number" /\ v.frac = 0 /\ v.n >= 1
NonNegativeInteger(v) == v.t = "number" /\ v.frac = 0 /\ v.n >= 0

(* The paging value of a call, or of a stored or sent condition, is one the
   contract accepts *)
PagingAccepted(method, v) ==
    /\ method = "limit" => PositiveInteger(v)
    /\ method = "skip" => NonNegativeInteger(v)

PagingEntriesAccepted(cs) ==
    \A i \in DOMAIN cs :
        \A method \in {"limit", "skip"} :
            cs[i].operator = Str(<<method>>) => PagingAccepted(method, cs[i].value)

C12_State ==
    /\ last.op = "fluent" => (last.threw <=> ~PagingAccepted(last.input.method, last.input.a))
    /\ \A f \in Facades : PagingEntriesAccepted(facades[f].conditions)
    /\ \A i \in DOMAIN sent :
         "conditions" \in DOMAIN sent[i].body =>
            PagingEntriesAccepted(sent[i].body.conditions)

C12_Step ==
    (last' # last /\ last'.op = "fluent" /\ last'.threw) =>
        /\ facades' = facades
        /\ sent' = sent
        /\ calls' = calls
        /\ pc' = pc

(* C12. Paging validation: limit(v) throws exactly when v is not a positive
   integer and skip(v) exactly when v is not a non-negative integer; the call
   that throws records no condition and sends no request, and no facade and
   no request ever holds a paging value that was refused. *)
C12_PagingValidation == []C12_State /\ [][C12_Step]_vars

(* limit(2.5) refused on a facade whose find, with one condition, is sent *)
C12_Witness ==
    /\ last.op = "fluent"
    /\ last.threw
    /\ last.input.method = "limit"
    /\ last.input.a = NumHalf(2)
    /\ call.op = "find"
    /\ call.facade = last.facade
    /\ Len(sent) = 1
    /\ Len(sent[1].body.conditions) = 1
    /\ Len(facades[last.facade].conditions) = 1


(* C13. A fluent call made on a facade after find() was invoked does not
   change that find: every attempt of it, retries included, carries the
   conditions the facade held when find() was invoked, which are those of
   its first request. *)
C13_ReadOnceAtCall ==
    call.op = "find" =>
        \A i \in DOMAIN sent : sent[i].body.conditions = sent[1].body.conditions


(* The route and the fields each terminal operation is bound to *)
RouteOf(op) ==
    CASE op = "insert" -> "insertQuery"
      [] op = "save" -> "saveQuery"
      [] op = "update" -> "update"
      [] op = "remove" -> "removeQuery"
      [] op = "truncate" -> "truncateQuery"
      [] op = "find" -> "query"

FieldsOf(op) ==
    CASE op \in {"insert", "save", "update"} -> {"item"}
      [] op = "remove" -> {"itemId"}
      [] op = "truncate" -> {}
      [] op = "find" -> {"conditions"}

(* C14. Request envelope: every attempt of every terminal operation is a POST
   to the route of the operation under the facade's base address, and its
   body holds the collection and the token the facade was created with, the
   options, and exactly the operation's fields: item for insert, save and
   update, itemId for remove, nothing for truncate, conditions for find. *)
C14_Envelope ==
    \A i \in DOMAIN sent :
        LET r == sent[i]
        IN /\ call.op \in TerminalOps
           /\ r.n = i
           /\ r.method = "POST"
           /\ r.url = <<"https://">> \o client.username.s \o <<".wixsite.com/">>
                      \o client.site.s \o <<"/_functions", "/", RouteOf(call.op)>>
           /\ DOMAIN r.body = {"collection", "token", "options"} \cup FieldsOf(call.op)
           /\ r.body.collection = facades[call.facade].collectionName
           /\ r.body.token = client.token
           /\ "item" \in FieldsOf(call.op) => r.body.item = Obj("post")
           /\ "itemId" \in FieldsOf(call.op) => r.body.itemId = Str(<<"id1">>)
           /\ r.body.options = IF call.op = "find" THEN {} ELSE {<<"suppressAuth", TRUE>>}

(* The second attempt of a remove on a facade that holds a condition *)
C14_Witness ==
    /\ call.op = "remove"
    /\ Len(sent) = 2
    /\ Len(facades[call.facade].conditions) = 1
    /\ "conditions" \notin DOMAIN sent[2].body
    /\ sent[2].body.itemId = Str(<<"id1">>)


(* query("Posts").eq("status","published").limit(10).find() on the client
   of ("acme", "shop", "t1") *)
EndToEndFind ==
    /\ FindJustCalled
    /\ client.username = Str(<<"acme">>)
    /\ client.site = Str(<<"shop">>)
    /\ client.token = Str(<<"t1">>)
    /\ facades[call.facade].collectionName = Str(<<"Posts">>)
    /\ fluentLog[call.facade] =
          << FluentCall("eq", Str(<<"status">>), Str(<<"published">>), JsUndefined),
             FluentCall("limit", Num(10), JsUndefined, JsUndefined) >>

(* C15. End to end, first attempt answered with success: the client of
   ("acme", "shop", "t1") running
   query("Posts").eq("status","published").limit(10).find() sends exactly one
   POST, to https://acme.wixsite.com/shop/_functions/query, with the body
   {collection:"Posts", token:"t1", conditions:[{field:"status",
   operator:"eq", value:"published"}, {field:null, operator:"limit",
   value:10}], options:{}} and nothing else in it. *)
C15_EndToEnd ==
    EndToEndFind =>
        /\ Len(sent) = 1
        /\ sent[1].method = "POST"
        /\ sent[1].url = <<"https://", "acme", ".wixsite.com/", "shop", "/_functions", "/",
                           "query">>
        /\ sent[1].body =
              [collection |-> Str(<<"Posts">>),
               token |-> Str(<<"t1">>),
               conditions |->
                  << [field |-> Str(<<"status">>), operator |-> Str(<<"eq">>),
                      value |-> Str(<<"published">>)],
                     [field |-> JsNull, operator |-> Str(<<"limit">>), value |-> Num(10)] >>,
               options |-> {}]

(* The call has resolved with the success body of its first attempt *)
C15_Witness ==
    /\ EndToEndFind
    /\ pc = "resolved"
    /\ attempt = 1
    /\ outcome = Resolved(SuccessData)


(* The statuses of the responses the attempts of the call received *)
ResponseStatuses == [i \in DOMAIN Of("response") |-> Of("response")[i].response.status]

(* A find whose attempts were answered 503, 503 and then with the success
   body, which has been read *)
TwoRefusalsThenSuccess ==
    /\ call.op = "find"
    /\ Settled
    /\ ResponseStatuses = <<503, 503, 200>>
    /\ Of("response")[3].response.data = SuccessData

(* C16. End to end with retries: a find() whose first two attempts receive
   HTTP 503 and whose third receives the success body, with maxAttempts = 3,
   resolves with that body after exactly 3 requests and exactly two waits,
   of baseDelay and then of min(2 * baseDelay, maxDelay). *)
C16_RetriesThenSuccess ==
    TwoRefusalsThenSuccess =>
        /\ policy.maxAttempts = 3
        /\ pc = "resolved"
        /\ TerminalOutcome = Resolved(SuccessData)
        /\ Len(sent) = 3
        /\ Count("fetch") = 3
        /\ Count("sleep") = 2
        /\ Of("sleep")[1].delay = policy.baseDelay
        /\ Of("sleep")[2].delay = (IF 2 * policy.baseDelay < policy.maxDelay
                                   THEN 2 * policy.baseDelay ELSE policy.maxDelay)

(* With the retry configuration of the SDK the waits are 1000 and 2000 *)
C16_Witness ==
    /\ TwoRefusalsThenSuccess
    /\ pc = "resolved"
    /\ outcome.value.result = "items"
    /\ Of("sleep")[1].delay = 1000
    /\ Of("sleep")[2].delay = 2000


(* C17. Response discrimination: the normalizer accepts a body only if its
   status exists and is exactly "success" or "failed"; a body whose status is
   missing, is not a string, or is any other value fails as a malformed
   response and is never returned, while a body with status "success" is
   returned as it is. *)
C17_ResponseDiscrimination ==
    caller = "transport" =>
        \A i \in DOMAIN events :
            OkBodyHandled(i) =>
                LET d == events[i].response.data
                    after == events[i + 1]
                IN /\ (~d.isNull /\ d.statusType = "string" /\ d.status = "success") =>
                        (after.t = "returned" /\ after.value = d)
                   /\ (d.isNull \/ d.statusType # "string"
                       \/ d.status \notin {"success", "failed"}) =>
                        (after.t = "threw" /\ after.error = MalformedError)


(* The terminal call has settled and its last response was a well-formed
   application failure: HTTP ok, a JSON body with status "failed" *)
SettledOnFailedBody ==
    /\ call.op \in TerminalOps
    /\ Settled
    /\ Count("response") >= 1
    /\ LET r == Of("response")[Count("response")].response
       IN r.ok /\ r.json /\ ~r.data.isNull /\ r.data.statusType = "string"
          /\ r.data.status = "failed"

(* C18. Every terminal operation (insert, save, update, remove, truncate,
   find) either resolves with the body of the response, whose status is a
   string other than "failed", or rejects with a single Error: on a
   well-formed application-level failure (a response with status "failed")
   the call rejects with the Error thrown for that response, whose message
   starts with "Wix API Error:", and never resolves with a Failure value. *)
C18_FailureRejects ==
    /\ SettledOnFailedBody =>
        /\ TerminalOutcome.state = "rejected"
        /\ SubSeq(TerminalOutcome.error.message, 1, 3) = <<"Wix", "API", "Error:">>
        /\ Count("fetch") = Count("response")
        /\ events[Len(events)].t = "threw"
    /\ (call.op \in TerminalOps /\ TerminalOutcome.state = "resolved") =>
        /\ TerminalOutcome.value.statusType = "string"
        /\ TerminalOutcome.value.status # "failed"
        /\ TerminalOutcome.value = Of("response")[Count("response")].response.data

(* An insert answered 503 and then with a failed body has rejected *)
C18_Witness ==
    /\ SettledOnFailedBody
    /\ call.op = "insert"
    /\ Count("response") = 2
    /\ TerminalOutcome.state = "rejected"

(* C18 as stated: on a well-formed application-level failure the call
   resolves with a Failure value the caller inspects, and does not throw. *)
C18_FailureResolves ==
    SettledOnFailedBody =>
        /\ TerminalOutcome.state = "resolved"
        /\ TerminalOutcome.value.status = "failed"


(* A non-empty string, as the claim words it *)
NonEmptyString(v) == v.t = "string" /\ v.s # <<>>

(* A string with a character that is not whitespace *)
NonBlankString(v) == v.t = "string" /\ \E i \in DOMAIN v.s : v.s[i] # " "

(* Facade r is empty and bound to the client and to collection name *)
FreshFacade(r, name) ==
    /\ r \in Facades
    /\ facades[r].made
    /\ facades[r].conditions = <<>>
    /\ facades[r].collectionName = name
    /\ facades[r].token = client.token
    /\ facades[r].apiBase = <<"https://">> \o client.username.s \o <<".wixsite.com/">>
                            \o client.site.s \o <<"/_functions">>

(* The strings the validation lets through: those with a character other
   than whitespace if trimmed, the non-empty ones if not *)
Accepted(v, trimmed) == IF trimmed THEN NonBlankString(v) ELSE NonEmptyString(v)

(* What the latest call on the client did *)
ClientCallsAnswer(trimmed) ==
    /\ last.op = "new" =>
        /\ last.threw <=>
              ~(/\ Accepted(last.input.a, trimmed)
                /\ Accepted(last.input.b, trimmed)
                /\ Accepted(last.input.c, trimmed))
        /\ last.threw => (~client.built /\ sent = <<>> /\ \A f \in Facades : ~facades[f].made)
        /\ ~last.threw =>
              client = [built |-> TRUE, username |-> last.input.a, site |-> last.input.b,
                        token |-> last.input.c]
    /\ last.op = "query" =>
        /\ last.threw <=> ~Accepted(last.input.a, trimmed)
        /\ ~last.threw => FreshFacade(last.returned, last.input.a)

C19_Step ==
    /\ (last' # last /\ last'.op \in {"new", "query"} /\ last'.threw) =>
          (client' = client /\ facades' = facades /\ sent' = sent /\ pc' = pc)
    /\ (last' # last /\ last'.op = "query" /\ ~last'.threw) =>
          /\ ~facades[last'.returned].made
          /\ \A f \in Facades \ {last'.returned} : facades'[f] = facades[f]
          /\ client' = client
          /\ sent' = sent

(* C19. Client validation: new WixCMS(account, site, token) throws when any
   of the three is not a string with a character other than whitespace, and
   query(name) throws when name is not such a string, in both cases leaving
   the client, the facades and the requests as they were; otherwise
   query(name) returns a new facade, distinct from all earlier ones, with no
   conditions, bound to that identity and to the base address
   https://{account}.wixsite.com/{site}/_functions. *)
C19_ClientValidation == []ClientCallsAnswer(TRUE) /\ [][C19_Step]_vars

(* query("Users") has returned the second facade while the first holds a
   condition *)
C19_Witness ==
    /\ last.op = "query"
    /\ ~last.threw
    /\ last.returned = 2
    /\ facades[1].conditions # <<>>
    /\ facades[2].conditions = <<>>
    /\ facades[2].collectionName = Str(<<"Users">>)

(* C19 as stated: the calls throw when an argument is not a non-empty string
   and succeed otherwise. *)
C19_NonEmptyAccepted == ClientCallsAnswer(FALSE)


(* What facade f is bound to *)
Binding(fs, f) ==
    [collectionName |-> fs[f].collectionName, token |-> fs[f].token,
     apiBase |-> fs[f].apiBase]

C20_State ==
    \A i \in DOMAIN sent :
        LET own == fluentLog[call.facade]
        IN /\ sent[i].body.collection = facades[call.facade].collectionName
           /\ sent[i].body.token = client.token
           /\ "conditions" \in DOMAIN sent[i].body =>
                /\ Len(sent[i].body.conditions) <= Len(own)
                /\ \A j \in DOMAIN sent[i].body.conditions :
                      EntryOf(sent[i].body.conditions[j], own[j])

C20_Step ==
    /\ client.built => client' = client
    /\ \A f \in Facades : facades[f].made => Binding(facades', f) = Binding(facades, f)
    /\ (last' # last /\ last'.op = "fluent") =>
          \A g \in Facades \ {last'.facade} : facades'[g] = facades[g]
    /\ calls' # calls => facades' = facades
    /\ \A g \in Facades :
          (facades[g].made /\ fluentLog'[g] = fluentLog[g]) =>
              facades'[g].conditions = facades[g].conditions

(* C20. Facades made by the same client share no mutable state: in every
   interleaving of fluent and terminal calls on two facades, a call on one
   never changes the conditions the other holds nor the collection, token
   and conditions the other sends, and no call on a facade changes the
   client's identity. *)
C20_Isolated == []C20_State /\ [][C20_Step]_vars

(* The retry of a find on one facade, sent after a fluent call on the other
   facade, which is bound to another collection *)
C20_Witness ==
    /\ call.op = "find"
    /\ Len(sent) = 2
    /\ last.op = "fluent"
    /\ last.facade # call.facade
    /\ facades[last.facade].collectionName # facades[call.facade].collectionName
    /\ facades[last.facade].conditions # <<>>
    /\ sent[2].body.conditions = <<>>

----------------------------------------------------------------------------
(* The backend on its own: POST requests from any sender *)

RequestTokens == {Str(<<"t1">>), Str(<<"wrong">>), JsUndefined}
RequestCollections == {Str(<<"Posts">>), Str(<<" ">>), Str(<<>>), JsNull, JsUndefined}

(* A call of fluent method m with arguments it accepts *)
FluentSample(m) ==
    FluentCall(m, IF m \in {"limit", "skip"} THEN Num(1) ELSE Str(<<"views">>),
               IF m \in {"limit", "skip"} THEN JsUndefined ELSE Num(1),
               IF m = "between" THEN Num(2) ELSE JsUndefined)

(* The condition a fluent call of m puts into the body of find *)
SentCondition(m) == StringifyCondition(FluentCondition(FluentSample(m)))

RequestConditions ==
    {<<>>}
    \cup {<<SentCondition(m)>> : m \in FluentMethods}
    \cup { <<SentCondition("eq"), SentCondition("isEmpty")>>,
           <<StringifyCondition(Condition(Str(<<"title">>), "regex", Str(<<"a">>), JsUndefined)),
             SentCondition("gte")>> }

(* The JSON object of a request: a key whose value is undefined is absent *)
RequestBody(token, collection, payloadKey, payload) ==
    LET all == [k \in {"token", "collection", payloadKey} |->
                   CASE k = "token" -> token
                     [] k = "collection" -> collection
                     [] OTHER -> payload]
    IN [k \in {k \in DOMAIN all : k = "conditions" \/ all[k].t # "undefined"} |-> all[k]]

Routes == Handlers \cup {"update"}

Requests ==
    {Request("query", "object", RequestBody(t, c, "conditions", conds)) :
        t \in RequestTokens, c \in RequestCollections, conds \in RequestConditions}
    \cup {Request(r, "object", RequestBody(t, c, "item", i)) :
            r \in {"insertQuery", "saveQuery", "update"}, t \in RequestTokens,
            c \in RequestCollections, i \in {Obj("post"), Arr("posts")}}
    \cup {Request("removeQuery", "object", RequestBody(t, c, "itemId", i)) :
            t \in RequestTokens, c \in RequestCollections, i \in {Str(<<"id1">>), Arr("ids")}}
    \cup {Request("truncateQuery", "object", RequestBody(t, c, "itemId", JsUndefined)) :
            t \in RequestTokens, c \in RequestCollections}
    \cup {Request(r, p, <<>>) : r \in Handlers, p \in {"null", "invalid"}}

Handled(req, ans) == [request |-> req, answer |-> ans]

(* One request arrives and is answered *)
Post(req, db) ==
    /\ server' = [server EXCEPT !.handled = <<Handled(req, HandleRequest(req, server.secret, db))>>]
    /\ UNCHANGED <<retryVars, clsErr, clsOut, client, facades, fluentLog, last, call, calls, sent>>

NextHandler == \E req \in Requests, db \in DbOutcomes : Post(req, db)

SpecHandler == Init /\ [][NextHandler]_vars

(* The token of a request; a body that is no object has none *)
TokenOf(req) == IF req.parsed = "object" THEN Field(req.body, "token") ELSE JsUndefined
CollectionOf(req) == IF req.parsed = "object" THEN Field(req.body, "collection") ELSE JsUndefined

NoCollection(req) ==
    CollectionOf(req) \in {JsUndefined, JsNull, Str(<<>>)}

OperatorsOf(req) ==
    {req.body.conditions[i].operator.s[1] : i \in DOMAIN req.body.conditions}

BadRequestBody(ans, code) ==
    ans.http = 400 /\ ans.json /\ ans.data = FailedData(code, NoMsg)

(* C21: post_query answers a request with a valid token and collection whose
   conditions hold an operator outside its table with the bad request
   {status: "failed", error: "invalid_operator"}, without running the query
   and without a success body *)
C21_InvalidOperator ==
    \A i \in DOMAIN server.handled :
        LET req == server.handled[i].request
            ans == server.handled[i].answer
        IN (/\ req.route = "query" /\ req.parsed = "object"
            /\ TokenOf(req) = server.secret /\ ~NoCollection(req)
            /\ OperatorsOf(req) \ ServerOperators # {})
           => /\ BadRequestBody(ans, "invalid_operator")
              /\ \A j \in DOMAIN ans.ops : ans.ops[j] # "find"

(* Requests whose body parses to a JSON object *)
C22_Holds(objectsOnly) ==
    \A i \in DOMAIN server.handled :
        LET req == server.handled[i].request
            ans == server.handled[i].answer
        IN req.route \in Handlers =>
            /\ (TokenOf(req) # server.secret \/ NoCollection(req)) => ans.ops = <<>>
            /\ (objectsOnly => req.parsed = "object") =>
                 /\ TokenOf(req) # server.secret => BadRequestBody(ans, "unauthorized")
                 /\ (TokenOf(req) = server.secret /\ NoCollection(req))
                      => BadRequestBody(ans, "collection_not_provided")

(* C22: every handler answers a request whose body is a JSON object and whose
   token is missing or differs from the secret with {status: "failed",
   error: "unauthorized"}, whatever its collection, and one with the right
   token and no collection with collection_not_provided; wixData is called
   for no request without the right token and a collection *)
C22_Authentication == C22_Holds(TRUE)

C22_Witness ==
    \E i \in DOMAIN server.handled :
        LET req == server.handled[i].request
        IN /\ req.route = "insertQuery" /\ req.parsed = "object"
           /\ TokenOf(req) = Str(<<"wrong">>) /\ CollectionOf(req) = JsUndefined
           /\ BadRequestBody(server.handled[i].answer, "unauthorized")

(* C22 as stated: every request without the right token, whatever its body,
   is answered with unauthorized *)
C22_AnyRequest == C22_Holds(FALSE)

(* The wixData query method a recognized operator stands for *)
AppliedAs(operator) ==
    CASE operator = "gte" -> "ge"
      [] operator = "lte" -> "le"
      [] OTHER -> operator

(* C23: every operator a fluent method of the facade records is recognized by
   post_query: in a request with a valid token and collection whose
   conditions all come from fluent methods, each condition is applied to the
   query, in order, before find *)
C23_OperatorAgreement ==
    \A i \in DOMAIN server.handled :
        LET req == server.handled[i].request
            ans == server.handled[i].answer
        IN (/\ req.route = "query" /\ req.parsed = "object"
            /\ TokenOf(req) = server.secret /\ ~NoCollection(req)
            /\ OperatorsOf(req) \subseteq FluentMethods)
           => ans.ops = <<"query">>
                        \o [j \in DOMAIN req.body.conditions |->
                               AppliedAs(req.body.conditions[j].operator.s[1])]
                        \o <<"find">>

----------------------------------------------------------------------------
(* The client against the bundled backend *)

Secrets == {Str(<<"t1">>), Str(<<"s3cret">>)}

InitServer ==
    /\ InitRetry
    /\ clsErr = Undefined
    /\ clsOut = "idle"
    /\ server \in {Server(secret) : secret \in Secrets}

(* The request to the backend leaves; nothing has come back yet *)
InFlight == MkNet("silent", Undefined, NoResp)

(* What the handler sees of a request of the client *)
RequestOf(s) == Request(s.url[Len(s.url)], "object", s.body)

(* The backend handles the request of the running attempt. Its response is
   on the way back, or a gateway in front of it answers 503 in its place;
   the client's timer may still fire first. *)
Serve(db) ==
    /\ pc = "fetch"
    /\ net = InFlight
    /\ Len(server.handled) < Len(sent)
    /\ LET req == RequestOf(sent[Len(sent)])
           ans == HandleRequest(req, server.secret, db)
       IN /\ server' = [server EXCEPT !.handled = Append(@, Handled(req, ans))]
          /\ net' \in {MkNet("response", Undefined, ServerResponse(ans)),
                       MkNet("response", Undefined, Answer503)}
    /\ UNCHANGED <<pc, caller, policy, attempt, lastError, outcome, events, timer, resp,
                   clsErr, clsOut, client, facades, fluentLog, last, call, calls, sent>>

Served == \E db \in DbOutcomes : Serve(db)

TerminalServer == \E f \in Facades, op \in TerminalOps : Terminal(f, op) /\ net' = InFlight

WakeServer == Wake /\ net' = InFlight

(* The facades are made before the first terminal call *)
QueryServer == pc = "idle" /\ Query(Str(<<"Posts">>))

NextServer ==
    \/ NewWixCMS
    \/ QueryServer
    \/ TerminalServer
    \/ Served
    \/ WakeServer
    \/ FetchResolves
    \/ TimerFires
    \/ OkBodyRead
    \/ ErrorBodyRead

SpecServer == InitServer /\ [][NextServer]_vars


----------------------------------------------------------------------------
(* The invocations of fn, the calls of onRetry and the sleeps of a run, in
   the order they were made *)
Steps == SelectSeq(events, LAMBDA e : e.t \in {"fn", "onRetry", "sleep"})

(* The error attempt n failed with *)
ErrorOf(n) == LET throws == SelectSeq(events, LAMBDA e : e.t = "threw" /\ e.n = n)
              IN throws[1].error

(* C24. Event order inside one withRetry run: attempt 1, then for each failed
   retryable attempt n < maxAttempts exactly onRetry(error of attempt n, n,
   delay), then a sleep of that same delay, then attempt n+1. onRetry is
   called once per retry and before the sleep; once the run has settled the
   onRetry calls and the sleeps are each one fewer than the invocations, and
   none comes after the last attempt. *)
C24_EventOrder ==
    (Running /\ Count("fn") >= 1) =>
        /\ \A k \in DOMAIN Steps :
              LET n == (k + 2) \div 3
              IN CASE k % 3 = 1 -> Steps[k] = Ev("fn", n)
                   [] k % 3 = 2 ->
                        /\ Steps[k].t = "onRetry" /\ Steps[k].n = n
                        /\ Steps[k].error = ErrorOf(n)
                        /\ Steps[k].delay = ExpectedDelay(n)
                        /\ n < policy.maxAttempts
                        /\ IsRetryable(policy, ErrorOf(n))
                   [] OTHER -> Steps[k] = EvSleep(n, Steps[k - 1].delay)
        /\ Count("onRetry") = Count("sleep")
        /\ Count("onRetry") = IF pc = "sleep" THEN Count("fn") ELSE Count("fn") - 1
        /\ \A n \in 1..Count("threw") :
              (n < policy.maxAttempts /\ IsRetryable(policy, ErrorOf(n)))
                 => Count("onRetry") >= n
        /\ Settled => Steps[Len(Steps)].t = "fn"

C24_Witness ==
    /\ caller = "generic"
    /\ pc = "resolved"
    /\ Count("fn") = 3
    /\ Count("onRetry") = 2
    /\ Count("sleep") = 2
    /\ Of("onRetry")[1].error # Of("onRetry")[2].error
    /\ Of("sleep")[1].delay # Of("sleep")[2].delay


----------------------------------------------------------------------------
(* The attempts whose request has left and has neither been answered to the
   end nor failed *)
Open == {n \in 1..Count("fetch") :
            \A i \in DOMAIN events : ~(events[i].n = n /\ events[i].t \in {"threw", "returned"})}

(* Where in the log the request of attempt n left, attempt n failed, the
   sleep after attempt n began *)
At(t, n) == CHOOSE i \in DOMAIN events : events[i].t = t /\ events[i].n = n
Logged(t, n) == \E i \in DOMAIN events : events[i].t = t /\ events[i].n = n

C25_State ==
    caller = "transport" =>
        /\ Cardinality(Open) <= 1
        /\ \A i \in DOMAIN Of("fetch") : Of("fetch")[i].n = i
        /\ \A n \in 2..Count("fetch") :
              /\ Logged("threw", n - 1) /\ Logged("sleep", n - 1)
              /\ At("fetch", n - 1) < At("threw", n - 1)
              /\ At("threw", n - 1) < At("sleep", n - 1)
              /\ At("sleep", n - 1) < At("fetch", n)
        /\ pc = "sleep" => Open = {} /\ Count("fetch") = attempt
        /\ Open # {} <=> pc \in {"fetch", "okBody", "errorBody"}
        /\ timer = "armed" => Open = {attempt}

(* A request leaves at the start of the call or when a sleep ends *)
C25_Step ==
    (caller' = "transport" /\ Count("fetch")' # Count("fetch") /\ caller = "transport"
     /\ pc # "idle")
       => /\ pc = "sleep"
          /\ Open = {}
          /\ Count("fetch")' = Count("fetch") + 1
          /\ Open' = {attempt + 1}

(* C25. The attempts of one terminal call are strictly sequential: at most
   one request of the call is in flight at any moment, and the request of
   attempt n+1 leaves only after attempt n has failed and the sleep after it
   has ended *)
C25_Sequential == []C25_State /\ [][C25_Step]_vars

C25_Witness ==
    /\ caller = "transport"
    /\ pc = "fetch"
    /\ Count("fetch") = 3
    /\ Open = {3}
    /\ Of("threw")[1].error = RequestTimeoutError
    /\ Of("threw")[2].error.status = 503


----------------------------------------------------------------------------
(* Terminal calls of every kind and outcome between fluent calls of two kinds *)

FluentGrow ==
    \E f \in Facades,
       in \in {FluentCall("eq", Str(<<"status">>), Str(<<"published">>), JsUndefined),
               FluentCall("limit", Num(10), JsUndefined, JsUndefined)} : Fluent(f, in)

NextGrow ==
    \/ NewWixCMS
    \/ QueryServer
    \/ FluentGrow
    \/ TerminalCalled
    \/ WakeFacade
    \/ FetchResolves
    \/ OkBodyRead
    \/ ErrorBodyRead

SpecGrow == Init /\ [][NextGrow]_vars

IsPrefix(a, b) == Len(a) <= Len(b) /\ \A i \in DOMAIN a : a[i] = b[i]

C26_Step ==
    /\ \A f \in Facades :
          facades[f].made =>
             /\ facades'[f].made
             /\ IsPrefix(facades[f].conditions, facades'[f].conditions)
    /\ (calls' # calls \/ pc' # pc) => facades' = facades
    /\ (/\ calls' # calls
        /\ call.op = "find" /\ call'.op = "find" /\ call'.facade = call.facade)
       => LET now == sent'[1].body.conditions
              log == fluentLog[call.facade]
          IN /\ \A i \in DOMAIN sent : IsPrefix(sent[i].body.conditions, now)
             /\ Len(now) = Len(log)
             /\ \A i \in DOMAIN now : EntryOf(now[i], log[i])

(* C26. A facade's conditions only grow: no step of a terminal operation,
   whether it succeeds, fails or is retried, removes, reorders or alters
   them, and a find() that follows a find() on the same facade sends the
   conditions the first one sent, in the same order, followed by those
   added since *)
C26_OnlyGrows == [][C26_Step]_vars

(* A find that sent [eq] was retried to the end and rejected, limit was
   called on its facade since, and the next find is about to be made *)
C26_Witness ==
    /\ calls = 1 /\ calls < MaxCalls
    /\ call.op = "find"
    /\ pc = "rejected"
    /\ Len(sent) = 3
    /\ Len(sent[1].body.conditions) = 1
    /\ sent[1].body.conditions[1].operator = Str(<<"eq">>)
    /\ Len(facades[call.facade].conditions) = 2
    /\ facades[call.facade].conditions[2].operator = Str(<<"limit">>)


----------------------------------------------------------------------------
(* C27. withRetry called with maxAttempts <= 0 never invokes the operation,
   calls onRetry and sleep not once, and rejects, with undefined as the
   error, instead of resolving *)
C27_NoAttempts ==
    (Running /\ policy.maxAttempts <= 0) =>
        /\ events = <<>>
        /\ pc = "rejected"
        /\ outcome.state = "rejected"
        /\ outcome.error = MkError("undefined", 0, <<>>)

C27_Witness ==
    /\ caller = "generic"
    /\ policy.maxAttempts = 0
    /\ policy.isRetryable.kind = "default"
    /\ pc = "rejected"
    /\ Count("fn") = 0


----------------------------------------------------------------------------
(* C28. Every route a terminal operation of the facade targets has a POST
   handler among the backend's functions: no request of a terminal call is
   answered with the platform's 404, and one with the right token and a
   collection reaches wixData *)
C28_EveryRouteHandled ==
    \A i \in DOMAIN server.handled :
        LET req == server.handled[i].request
            ans == server.handled[i].answer
        IN /\ call.op \in TerminalOps
           /\ ans.http # 404
           /\ (TokenOf(req) = server.secret /\ ~NoCollection(req)) => ans.ops # <<>>


----------------------------------------------------------------------------
Mutating == call.op \in {"insert", "save", "update", "remove", "truncate"}

(* The requests of the call for which the backend carried out its wixData
   operation *)
Applied == {i \in DOMAIN server.handled :
               server.handled[i].answer.http = 200 /\ server.handled[i].answer.ops # <<>>}

(* Attempt n failed on the client with the timeout or with a 5xx status *)
FailedRetryably(n) ==
    \E i \in DOMAIN events :
        /\ events[i].t = "threw" /\ events[i].n = n
        /\ \/ events[i].error.message = <<"Request", "timeout", "after", "30000ms">>
           \/ events[i].error.status \in 500..599

(* C29. Retries of a mutating call: every attempt of one insert, save,
   update, remove or truncate call carries the same request, whose body has
   no key beyond collection, token, item or itemId and options; an attempt
   before the third that fails with a timeout or a 5xx status is followed by
   another, whether or not the backend applied it; the client sends between
   one and three requests, the backend handles each at most once, and may so
   apply the mutation as often as requests were sent *)
C29_RetriedMutations ==
    Mutating =>
        /\ Len(sent) \in 1..3
        /\ \A i \in DOMAIN sent :
              /\ sent[i].body = sent[1].body
              /\ sent[i].url = sent[1].url
              /\ DOMAIN sent[i].body \subseteq {"collection", "token", "item", "itemId", "options"}
        /\ Len(server.handled) <= Len(sent)
        /\ \A i \in DOMAIN server.handled : server.handled[i].request = RequestOf(sent[i])
        /\ \A n \in 1..2 :
              FailedRetryably(n) => \/ Len(sent) > n
                                    \/ pc = "sleep" /\ attempt = n /\ outcome.state = "pending"
        /\ Cardinality(Applied) <= Len(sent)

(* One insert call, applied by the backend at every one of its three
   requests: the first timed out on the client *)
C29_Witness ==
    /\ call.op = "insert"
    /\ Len(sent) = 3
    /\ Applied = {1, 2, 3}
    /\ server.handled[1].answer.ops = <<"insert">>
    /\ Of("threw")[1].error = RequestTimeoutError
    /\ FailedRetryably(2)


----------------------------------------------------------------------------
(* The failure bodies of the backend *)
ApplicationFailures == {"unauthorized", "collection_not_provided", "operation_failed",
                        "query_failed"}

(* C30. Against the bundled backend, which answers every application failure
   (unauthorized, collection_not_provided, operation_failed, query_failed)
   with HTTP 400: the client turns the response into an Error with status
   400 whose message comes from the body's errorMessage, or else from its
   error code, does not retry it, and rejects the terminal call with it; the
   request so answered is the last of the call, and the only one when it is
   the first *)
C30_ApplicationFailure ==
    /\ \A i \in DOMAIN server.handled :
          LET ans == server.handled[i].answer
          IN (ans.json /\ ans.data.status = "failed")
                => ans.http = 400 /\ ans.data.error.text \in {<<c>> : c \in ApplicationFailures}
    /\ \A i \in DOMAIN events :
          (events[i].t = "response" /\ events[i].response.status = 400) =>
              LET n == events[i].n
                  d == events[i].response.data
                  detail == IF Truthy(d.errorMessage) THEN d.errorMessage ELSE d.error
              IN /\ Len(sent) = n
                 /\ \/ pc = "errorBody"
                    \/ /\ pc = "rejected"
                       /\ outcome.state = "rejected"
                       /\ outcome.error = MkError("Error", 400, formatErrorMessage(detail))
                       /\ Count("sleep") = n - 1

(* An insert the backend refused with operation_failed and the errorMessage
   "network timeout": rejected after its one request *)
C30_Witness ==
    /\ call.op = "insert"
    /\ pc = "rejected"
    /\ Len(sent) = 1
    /\ Len(server.handled) = 1
    /\ server.handled[1].answer.data = FailedData("operation_failed", StrMsg(<<"network", "timeout">>))
    /\ outcome.error.status = 400
    /\ outcome.error.message = <<"network", "timeout">>

====
